---------------------------- MODULE Spec2Model ----------------------------
(***************************************************************************)
(* Model of the harmonic-series synthesizer engine (HarmonicsEngine) of    *)
(* brylie.music: the engine's state, its public operations, and the        *)
(* asynchronous resume of the audio context inside play()/togglePlay().    *)
(*                                                                         *)
(* Units.  Volumes and gains are fixed point: a volume v in [0,1] is the   *)
(* integer 1000*v; a gain value is in units of 1/10000, so that            *)
(* volume * 0.3 is the integer volume * 3.  Frequencies are JavaScript     *)
(* numbers: records [kind, v] with kind "finite" (value v, in Hz), "NaN"   *)
(* or "Infinity" (v is the sign).                                          *)
(*                                                                         *)
(* The module also models the pure ocean-wave functions (oceanWaves.ts and *)
(* the particle count of drawFoam), over exact fractions; their calls are  *)
(* the specification SpecOcean.                                            *)
(***************************************************************************)
EXTENDS Integers, Sequences, FiniteSets, TLC

\* ------------------------------------------------------------------ bounds
\* Largest harmonic index the modelled callers toggle (indices 0..MaxIndex,
\* together with the out-of-range indices -1 and NUM_HARMONICS).
MaxIndex == 1
\* Most oscillators created in one behaviour (caps the id counter).
MaxOsc == 3
\* Most asynchronous play()/togglePlay() calls pending at once.
MaxTasks == 2

\* ------------------------------------------------------- program constants
NUM_HARMONICS == 16
HARMONIC_GAIN_SCALE == 3
FFT_SIZE == 2048
DEFAULT_FUNDAMENTAL == 220
DEFAULT_MASTER_VOLUME == 500

VARIABLES
    audioCtx,         \* "null", or the AudioContext's state: "suspended" | "running"
    masterGain,       \* "null", or [value |-> master gain value] once created
    analyser,         \* "null", or [fftSize |-> ..] once created
    ctxCreated,       \* how many AudioContexts (and chains) were constructed
    isPlaying,        \* state.isPlaying
    fundamentalFreq,  \* state.fundamentalFreq
    masterVolume,     \* state.masterVolume
    harmonics,        \* state.harmonics: [0..15 -> [number, active, volume]]
    nodes,            \* the Map index -> [osc, gain, freq, gainValue]
    oscCreated,       \* how many oscillators createOscillator() has returned
    sounding,         \* the oscillators started and not yet stopped and disconnected
    tasks,            \* pending async calls, each awaiting resume() or its return
    callerAwaits,     \* whether the callers await every async call before the next
    snap,             \* the snapshot object a caller holds from getState(), or "none"
    ocean,            \* the latest call of an ocean-wave function, with its result
    waves,            \* the OceanWaves component: its script variables
    last              \* the most recent call or settlement, as the caller sees it

engineVars == <<audioCtx, masterGain, analyser, ctxCreated, isPlaying,
                fundamentalFreq, masterVolume, harmonics, nodes, oscCreated,
                sounding>>
vars == <<audioCtx, masterGain, analyser, ctxCreated, isPlaying,
          fundamentalFreq, masterVolume, harmonics, nodes, oscCreated, sounding,
          tasks, callerAwaits, snap, ocean, waves, last>>

\* ------------------------------------------------------------- JS numbers
Finite(n) == [kind |-> "finite", v |-> n]
NaN == [kind |-> "NaN", v |-> 0]
PosInfinity == [kind |-> "Infinity", v |-> 1]
NegInfinity == [kind |-> "Infinity", v |-> -1]

\* Number.isFinite(f)
NumberIsFinite(f) == f.kind = "finite"

\* f <= 0 (every comparison with NaN is false)
LessOrEqualZero(f) ==
    CASE f.kind = "finite" -> f.v <= 0
      [] f.kind = "Infinity" -> f.v < 0
      [] OTHER -> FALSE

\* f * k for an integer k > 0
Times(f, k) == IF f.kind = "finite" THEN Finite(f.v * k) ELSE f

\* ----------------------------------------------------------------- inputs
Indices == 0 .. (NUM_HARMONICS - 1)
IndexInputs == (-1 .. MaxIndex) \cup {NUM_HARMONICS}
VolumeIndexInputs == {-1, 1, NUM_HARMONICS}
SnapIndexInputs == {1}
VolumeInputs == {300}
MasterVolumeInputs == {800}
FreqInputs == {Finite(440), Finite(0), Finite(-220), NaN, PosInfinity}
CtxStates == {"suspended", "running"}

\* floor(1000 * 0.5 / sqrt(n)): the largest r with r*r*n <= 500*500
HalfOverSqrt(n) ==
    CHOOSE r \in 0 .. 500 : r * r * n <= 250000 /\ (r + 1) * (r + 1) * n > 250000


\* ------------------------------------------------------------ engine state
\* The engine's fields gathered in one record, so that the methods below are
\* functions from engine state to engine state and compose as the code calls
\* them.  threw records an exception that escapes the running method.
Cur == [audioCtx |-> audioCtx, masterGain |-> masterGain, analyser |-> analyser,
        ctxCreated |-> ctxCreated, isPlaying |-> isPlaying,
        fundamentalFreq |-> fundamentalFreq, masterVolume |-> masterVolume,
        harmonics |-> harmonics, nodes |-> nodes, oscCreated |-> oscCreated,
        sounding |-> sounding,
        threw |-> FALSE]

Assign(e) ==
    /\ audioCtx' = e.audioCtx
    /\ masterGain' = e.masterGain
    /\ analyser' = e.analyser
    /\ ctxCreated' = e.ctxCreated
    /\ isPlaying' = e.isPlaying
    /\ fundamentalFreq' = e.fundamentalFreq
    /\ masterVolume' = e.masterVolume
    /\ harmonics' = e.harmonics
    /\ nodes' = e.nodes
    /\ oscCreated' = e.oscCreated
    /\ sounding' = e.sounding

\* The length of a zero-based array.
Length(arr) == Cardinality(DOMAIN arr)

NullGain == [created |-> FALSE, value |-> 0]
NullAnalyser == [created |-> FALSE, fftSize |-> 0]
NoNodes == [i \in {} |-> 0]

\* The set of indices whose harmonic is active.
Active(e) == {i \in Indices : e.harmonics[i].active}

\* Default harmonics numbered from zero.
DefaultHarmonicZeroBased(i) ==
    [number |-> i,
     active |-> (i = 0),
     volume |-> IF i = 0 THEN 1000 ELSE HalfOverSqrt(i + 1)]

\* constructor: the default harmonics, index i holding harmonic number i + 1
DefaultHarmonic(i) ==
    [number |-> i + 1,
     active |-> (i = 0),
     volume |-> IF i = 0 THEN 1000 ELSE HalfOverSqrt(i + 1)]

DefaultHarmonics == [i \in Indices |-> DefaultHarmonic(i)]

\* ---------------------------------------------------------- audio backend
\* osc.stop(): throws when the backend has already finalized the oscillator.
OscStop(finalized) == IF finalized THEN "InvalidStateError" ELSE "ok"

\* try { node.osc.stop(); } catch (_) { /* already stopped */ }
TryOscStopUncaught(finalized) == OscStop(finalized)
TryOscStop(finalized) == "ok"

\* An ensureAudioContext without its "if (this.audioCtx) return": every call
\* builds a context and a chain.
EnsureAudioContextAlways(e, st) ==
    [e EXCEPT !.audioCtx = st,
              !.analyser = [created |-> TRUE, fftSize |-> FFT_SIZE],
              !.masterGain = [created |-> TRUE, value |-> e.masterVolume],
              !.ctxCreated = @ + 1]

\* ensureAudioContext(): builds the context and the masterGain -> analyser ->
\* destination chain once; st is the state the new context starts in.
EnsureAudioContext(e, st) ==
    IF e.audioCtx # "null" THEN e
    ELSE [e EXCEPT !.audioCtx = st,
                   !.analyser = [created |-> TRUE, fftSize |-> FFT_SIZE],
                   !.masterGain = [created |-> TRUE, value |-> e.masterVolume],
                   !.ctxCreated = @ + 1]

\* A "Create" branch that gives the new gain node the default volume of its
\* harmonic.
CreateNodeDefaultGain(e, i) ==
    LET id == e.oscCreated + 1
        node == [osc |-> id, gain |-> id,
                 freq |-> Times(e.fundamentalFreq, i + 1),
                 gainValue |-> DefaultHarmonic(i).volume * HARMONIC_GAIN_SCALE]
    IN [e EXCEPT !.oscCreated = id,
                 !.sounding = @ \cup {id},
                 !.nodes = [j \in (DOMAIN e.nodes) \cup {i} |->
                               IF j = i THEN node ELSE e.nodes[j]]]

\* The "Create" branch of syncOscillators for index i.
CreateNode(e, i) ==
    LET id == e.oscCreated + 1
        node == [osc |-> id, gain |-> id,
                 freq |-> Times(e.fundamentalFreq, i + 1),
                 gainValue |-> e.harmonics[i].volume * HARMONIC_GAIN_SCALE]
    IN [e EXCEPT !.oscCreated = id,
                 !.sounding = @ \cup {id},
                 !.nodes = [j \in (DOMAIN e.nodes) \cup {i} |->
                               IF j = i THEN node ELSE e.nodes[j]]]

\* A removal whose osc.stop() is not inside a try: the exception escapes
\* before disconnect() and delete().
RemoveNodeUncaught(e, i, fin) ==
    IF OscStop(i \in fin) # "ok" THEN [e EXCEPT !.threw = TRUE]
    ELSE [e EXCEPT !.sounding = @ \ {e.nodes[i].osc},
                   !.nodes = [j \in (DOMAIN e.nodes) \ {i} |-> e.nodes[j]]]

\* stop (failure tolerated), disconnect and unbind the node at index i; fin is
\* the set of indices whose oscillator the backend has already finalized.
RemoveNode(e, i, fin) ==
    IF TryOscStop(i \in fin) # "ok" THEN [e EXCEPT !.threw = TRUE]
    ELSE [e EXCEPT !.sounding = @ \ {e.nodes[i].osc},
                   !.nodes = [j \in (DOMAIN e.nodes) \ {i} |-> e.nodes[j]]]

RECURSIVE SyncFrom(_, _, _)
SyncFrom(e, i, fin) ==
    IF i = Length(e.harmonics) \/ e.threw THEN e
    ELSE IF e.harmonics[i].active /\ i \notin DOMAIN e.nodes
         THEN SyncFrom(CreateNode(e, i), i + 1, fin)
    ELSE IF ~e.harmonics[i].active /\ i \in DOMAIN e.nodes
         THEN SyncFrom(RemoveNode(e, i, fin), i + 1, fin)
    ELSE SyncFrom(e, i + 1, fin)

\* A syncOscillators that only ever creates (the removal branch missing).
RECURSIVE SyncCreateOnly(_, _)
SyncCreateOnly(e, i) ==
    IF i = Length(e.harmonics) THEN e
    ELSE IF e.harmonics[i].active /\ i \notin DOMAIN e.nodes
         THEN SyncCreateOnly(CreateNode(e, i), i + 1)
    ELSE SyncCreateOnly(e, i + 1)

SyncOscillatorsNoRemove(e, fin) ==
    IF e.audioCtx = "null" \/ ~e.masterGain.created THEN e
    ELSE SyncCreateOnly(e, 0)

\* A syncOscillators that tears every binding down and builds them anew.
SyncOscillatorsRebuild(e, fin) ==
    IF e.audioCtx = "null" \/ ~e.masterGain.created THEN e
    ELSE SyncFrom([e EXCEPT !.nodes = NoNodes], 0, fin)

\* syncOscillators()
SyncOscillators(e, fin) ==
    IF e.audioCtx = "null" \/ ~e.masterGain.created THEN e
    ELSE SyncFrom(e, 0, fin)

\* ---------------------------------------------------------- engine methods
\* A stop() that forgets nodes.clear().
stopWithoutClear(e, fin) ==
    IF \E i \in DOMAIN e.nodes : TryOscStop(i \in fin) # "ok"
    THEN [e EXCEPT !.isPlaying = FALSE, !.threw = TRUE]
    ELSE [e EXCEPT !.isPlaying = FALSE,
                   !.sounding = @ \ {e.nodes[i].osc : i \in DOMAIN e.nodes}]

\* A stop() that clears the map without stopping and disconnecting the nodes.
stopClearOnly(e, fin) == [e EXCEPT !.isPlaying = FALSE, !.nodes = NoNodes]

\* stop(): the forEach ends at the first exception, before nodes.clear().
stop(e, fin) ==
    IF \E i \in DOMAIN e.nodes : TryOscStop(i \in fin) # "ok"
    THEN [e EXCEPT !.isPlaying = FALSE, !.threw = TRUE]
    ELSE [e EXCEPT !.isPlaying = FALSE,
                   !.sounding = @ \ {e.nodes[i].osc : i \in DOMAIN e.nodes},
                   !.nodes = NoNodes]

\* A play() that reports playing before it awaits resume().
playBeginEager(e, st) == [EnsureAudioContext(e, st) EXCEPT !.isPlaying = TRUE]

\* play(), up to its await: the context is ensured; the method awaits
\* audioCtx.resume() iff the context is suspended.
playBegin(e, st) == EnsureAudioContext(e, st)

playAwaitsResume(e) == e.audioCtx = "suspended"

\* play(), after the await (or straight on when there was none).
playFinish(e, fin) == SyncOscillators([e EXCEPT !.isPlaying = TRUE], fin)

\* play() when the awaited resume() settles: a rejection is thrown to the
\* caller at the await, before isPlaying is assigned.
playResumedIgnoringRejection(e, resolved, fin) == playFinish(e, fin)
playResumed(e, resolved, fin) ==
    IF resolved THEN playFinish(e, fin) ELSE [e EXCEPT !.threw = TRUE]

\* togglePlay(): which of stop() and play() it performs.
togglePlayBranchInverted(e) == IF e.isPlaying THEN "play" ELSE "stop"
togglePlayBranch(e) == IF e.isPlaying THEN "stop" ELSE "play"

\* togglePlay(): return this.state.isPlaying
togglePlayResult(e) == e.isPlaying

\* The earlier setFundamental, without the guard on freq.
setFundamentalUnguarded(e, freq) ==
    LET e1 == [e EXCEPT !.fundamentalFreq = freq]
    IN IF e1.isPlaying /\ e1.audioCtx # "null"
       THEN [e1 EXCEPT !.nodes = [i \in DOMAIN e1.nodes |->
                          [e1.nodes[i] EXCEPT !.freq = Times(freq, i + 1)]]]
       ELSE e1

\* A setFundamental that stores the frequency and leaves the oscillators.
setFundamentalStateOnly(e, freq) ==
    IF ~NumberIsFinite(freq) \/ LessOrEqualZero(freq) THEN e
    ELSE [e EXCEPT !.fundamentalFreq = freq]

\* setFundamental(freq)
setFundamental(e, freq) ==
    IF ~NumberIsFinite(freq) \/ LessOrEqualZero(freq) THEN e
    ELSE LET e1 == [e EXCEPT !.fundamentalFreq = freq]
         IN IF e1.isPlaying /\ e1.audioCtx # "null"
            THEN [e1 EXCEPT !.nodes = [i \in DOMAIN e1.nodes |->
                               [e1.nodes[i] EXCEPT !.freq = Times(freq, i + 1)]]]
            ELSE e1

\* A setFrequency that reaches the oscillators only: it does nothing while
\* nothing plays.
setFrequencyWhilePlaying(e, freq) ==
    IF e.isPlaying THEN setFundamental(e, freq) ELSE e

\* setFrequency(freq): the alias
setFrequency(e, freq) == setFundamental(e, freq)

\* setMasterVolume(vol)
setMasterVolume(e, vol) ==
    LET e1 == [e EXCEPT !.masterVolume = vol]
    IN IF e1.masterGain.created /\ e1.audioCtx # "null"
       THEN [e1 EXCEPT !.masterGain.value = vol]
       ELSE e1

\* index < 0 || index >= this.state.harmonics.length
IndexOutOfRangeLowOnly(e, index) == index < 0
IndexOutOfRange(e, index) == index < 0 \/ index >= Length(e.harmonics)

\* harmonics[index], which is undefined outside the array: reading a field of
\* it throws a TypeError.
HasHarmonic(e, index) == index \in DOMAIN e.harmonics

\* toggleHarmonic(index)
toggleHarmonic(e, index, fin) ==
    IF IndexOutOfRange(e, index) THEN e
    ELSE IF ~HasHarmonic(e, index) THEN [e EXCEPT !.threw = TRUE]
    ELSE LET e1 == [e EXCEPT !.harmonics[index].active = ~@]
         IN IF e1.isPlaying THEN SyncOscillators(e1, fin) ELSE e1

\* setHarmonicVolume(index, vol)
setHarmonicVolume(e, index, vol) ==
    IF IndexOutOfRange(e, index) THEN e
    ELSE IF ~HasHarmonic(e, index) THEN [e EXCEPT !.threw = TRUE]
    ELSE LET e1 == [e EXCEPT !.harmonics[index].volume = vol]
         IN IF e1.isPlaying /\ e1.audioCtx # "null" /\ index \in DOMAIN e1.nodes
            THEN [e1 EXCEPT !.nodes[index].gainValue = vol * HARMONIC_GAIN_SCALE]
            ELSE e1

\* -------------------------------------------------------------- snapshots
\* A snapshot is the object getState() hands to its caller.  Objects have
\* identity: stateAlias says the snapshot IS the engine's state object,
\* arrayAlias that its harmonics array IS the engine's array, and an
\* element's alias that the element IS the engine's harmonic object.  A write
\* through an aliased reference is a write to the engine.

\* h => ({ ...h }): a fresh object holding h's fields
CopyHarmonicByReference(h) == [alias |-> TRUE, number |-> h.number,
                               active |-> h.active, volume |-> h.volume]
CopyHarmonic(h) == [alias |-> FALSE, number |-> h.number,
                    active |-> h.active, volume |-> h.volume]

\* harmonics: this.state.harmonics.map(h => ({ ...h })): a fresh array
CopyHarmonics(hs) ==
    [alias |-> FALSE, items |-> [i \in DOMAIN hs |-> CopyHarmonic(hs[i])]]

\* getState(): { ...this.state, harmonics: ... }: a fresh object
getState(e) ==
    [stateAlias |-> FALSE,
     fundamentalFreq |-> e.fundamentalFreq,
     masterVolume |-> e.masterVolume,
     isPlaying |-> e.isPlaying,
     harmonics |-> CopyHarmonics(e.harmonics)]

\* The values a caller reads in a snapshot: the state without object identity.
View(s) ==
    [fundamentalFreq |-> s.fundamentalFreq,
     masterVolume |-> s.masterVolume,
     isPlaying |-> s.isPlaying,
     harmonics |-> [i \in DOMAIN s.harmonics.items |->
                       [number |-> s.harmonics.items[i].number,
                        active |-> s.harmonics.items[i].active,
                        volume |-> s.harmonics.items[i].volume]]]

\* The references of a snapshot: which of its objects are the engine's own.
\* This is what the caller's handle on a snapshot comes to for the engine.
NoSnap == [held |-> FALSE, stateAlias |-> FALSE, arrayAlias |-> FALSE,
           itemAlias |-> [i \in Indices |-> FALSE]]

Refs(s) ==
    [held |-> TRUE, stateAlias |-> s.stateAlias, arrayAlias |-> s.harmonics.alias,
     itemAlias |-> [i \in DOMAIN s.harmonics.items |-> s.harmonics.items[i].alias]]

\* The caller writes to the snapshot with references r: a scalar field of the
\* snapshot object, an element of its harmonics array (a new object), or the
\* fields of one of its harmonic objects.  The result is the references and
\* the engine after the write; the engine changes iff the written object is
\* the engine's own.
mutateSnapshot(r, e, what, i, vol) ==
    CASE what = "scalar" ->
           [snap |-> r,
            eng |-> IF r.stateAlias THEN [e EXCEPT !.isPlaying = ~@] ELSE e]
      [] what = "element" ->
           [snap |-> [r EXCEPT !.itemAlias[i] = FALSE],
            eng |-> IF r.stateAlias \/ r.arrayAlias
                    THEN [e EXCEPT !.harmonics[i] =
                             [number |-> 0, active |-> TRUE, volume |-> vol]]
                    ELSE e]
      [] what = "field" ->
           [snap |-> r,
            eng |-> IF r.itemAlias[i]
                    THEN [e EXCEPT !.harmonics[i].volume = vol,
                                   !.harmonics[i].active = ~@]
                    ELSE e]

\* ------------------------------------------------------------ observations
NoIndex == NUM_HARMONICS + 1
BoolStr(b) == IF b THEN "true" ELSE "false"
NoPrev == [same |-> FALSE, phase |-> "none", from |-> FALSE]

\* What a call of op(idx) has before it: whether the call before it was the
\* same call, and then how that one ended and what isPlaying was at its call.
Prev(op, idx) ==
    IF op \in {"stop", "togglePlay", "toggleHarmonic"} /\ last.op = op /\ last.idx = idx
    THEN [same |-> TRUE, phase |-> last.phase, from |-> last.from]
    ELSE NoPrev

\* The record of a call or settlement: the operation, how it ended
\* ("called": pending, "returned", "rejected", "resumed": play() done inside a
\* togglePlay() that has yet to return), its arguments, isPlaying when it was
\* called, whether it threw, what it returned, the call before it, and for a
\* settlement how the backend settled resume() ("resolved" or "rejected").
Outcome(op, phase, idx, freq, from, threw, ret, prev) ==
    [op |-> op, phase |-> phase, idx |-> idx, freq |-> freq, from |-> from,
     threw |-> threw, ret |-> ret, prev |-> prev, resume |-> "none"]

\* What the caller sees of a call or settlement: its record if the caller
\* awaits its calls.  A caller that awaits nothing reads no outcome either,
\* and what it saw last stays what it was.
Event(op, phase, idx, freq, from, threw, ret, prev) ==
    IF callerAwaits THEN Outcome(op, phase, idx, freq, from, threw, ret, prev)
    ELSE last

\* The same of a settlement, with how the backend settled resume().
Settled(ev, how) == IF callerAwaits THEN [ev EXCEPT !.resume = how] ELSE last

\* The record of a call that ends within the call.
Call(op, idx, freq, threw, ret) ==
    Event(op, IF threw THEN "rejected" ELSE "returned", idx, freq, isPlaying,
          threw, ret, Prev(op, idx))

\* Callers that await every asynchronous call make no call while one is pending.
CallAllowed == callerAwaits => tasks = <<>>

\* Commits engine state e (the oscillator counter is capped at MaxOsc).
Commit(e) == e.oscCreated <= MaxOsc /\ Assign(e)

Remove(seq, k) == [j \in 1 .. (Len(seq) - 1) |-> IF j < k THEN seq[j] ELSE seq[j + 1]]

\* ------------------------------------------------------------ real numbers
\* The numbers of the ocean-wave functions are exact: a finite number is the
\* fraction n/d in lowest terms with d > 0, beside NaN and the two infinities
\* (n is then the sign).  There is no negative zero.
Abs(n) == IF n < 0 THEN -n ELSE n
Sign(n) == IF n < 0 THEN -1 ELSE IF n > 0 THEN 1 ELSE 0

RECURSIVE Gcd(_, _)
Gcd(a, b) == IF b = 0 THEN a ELSE Gcd(b, a % b)

Ratio(n, d) ==
    LET g == Gcd(Abs(n), Abs(d))
    IN [kind |-> "finite", n |-> (Sign(d) * n) \div g, d |-> Abs(d) \div g]
Whole(n) == Ratio(n, 1)
RealNaN == [kind |-> "NaN", n |-> 0, d |-> 1]
RealInfinity(sign) == [kind |-> "Infinity", n |-> sign, d |-> 1]

\* a + b
RealPlus(a, b) ==
    IF a.kind = "NaN" \/ b.kind = "NaN" THEN RealNaN
    ELSE IF a.kind = "Infinity"
         THEN IF b.kind = "Infinity" /\ b.n # a.n THEN RealNaN ELSE a
    ELSE IF b.kind = "Infinity" THEN b
    ELSE Ratio(a.n * b.d + b.n * a.d, a.d * b.d)

\* a * b
RealTimes(a, b) ==
    IF a.kind = "NaN" \/ b.kind = "NaN" THEN RealNaN
    ELSE IF a.kind = "Infinity" \/ b.kind = "Infinity"
         THEN IF a.n = 0 \/ b.n = 0 THEN RealNaN
              ELSE RealInfinity(Sign(a.n) * Sign(b.n))
    ELSE Ratio(a.n * b.n, a.d * b.d)

\* a - b
RealMinus(a, b) == RealPlus(a, RealTimes(Whole(-1), b))

\* a / b: x / 0 is an infinity, 0 / 0 is NaN, and nothing throws.
RealDivide(a, b) ==
    IF a.kind = "NaN" \/ b.kind = "NaN" THEN RealNaN
    ELSE IF a.kind = "Infinity"
         THEN IF b.kind = "Infinity" THEN RealNaN
              ELSE RealInfinity(a.n * (IF b.n < 0 THEN -1 ELSE 1))
    ELSE IF b.kind = "Infinity" THEN Whole(0)
    ELSE IF b.n = 0
         THEN IF a.n = 0 THEN RealNaN ELSE RealInfinity(Sign(a.n))
    ELSE Ratio(a.n * b.d, a.d * b.n)

\* a >= b: false when either is NaN
RealGeq(a, b) ==
    IF a.kind = "NaN" \/ b.kind = "NaN" THEN FALSE
    ELSE IF a.kind = "Infinity" THEN a.n > 0 \/ (b.kind = "Infinity" /\ b.n < 0)
    ELSE IF b.kind = "Infinity" THEN b.n < 0
    ELSE a.n * b.d >= b.n * a.d

\* a > b
RealGreater(a, b) == RealGeq(a, b) /\ a # b

\* Math.abs, Math.floor, Math.round (halves round up)
MathAbs(a) == IF a.kind = "NaN" THEN a ELSE [a EXCEPT !.n = Abs(a.n)]
MathFloor(a) == IF a.kind = "finite" THEN Whole(a.n \div a.d) ELSE a
MathRound(a) == IF a.kind = "finite" THEN MathFloor(RealPlus(a, Ratio(1, 2))) ELSE a

\* ------------------------------------------------------- ocean-wave functions
NOISE_Z_SCALE_FACTOR == Ratio(1, 2)
NOISE_CENTER_OFFSET == Ratio(1, 2)
AMPLITUDE_RANGE_MULTIPLIER == 2
BASE_WAVE_COLOR == [r |-> 20, g |-> 60, b |-> 100]
DISTANT_WAVE_COLOR == [r |-> 80, g |-> 120, b |-> 150]
FOAM_MIN_PARTICLES == 3
FOAM_MAX_PARTICLES_MULTIPLIER == 5

DEFAULT_OCEAN_CONFIG ==
    [layers |-> 5, noiseScale |-> Ratio(3, 1000), amplitude |-> Whole(50),
     waveSpeed |-> Ratio(8, 1000), foamThreshold |-> Ratio(7, 10),
     perspective |-> Ratio(6, 10)]

\* const depthScale = 1 - (z * perspective)
depthScale(z, config) == RealMinus(Whole(1), RealTimes(Whole(z), config.perspective))

\* A noise function of one value everywhere: () => value
constantNoise(value) == [value |-> value]

\* noiseFunc(nx, ny, nz)
NoiseAt(noiseFunc, nx, ny, nz) == noiseFunc.value

\* calculateWavePoint(x, z, time, config, noiseFunc)
calculateWavePoint(x, z, time, config, noiseFunc) ==
    LET scaledAmplitude == RealTimes(config.amplitude, depthScale(z, config))
        noiseValue == NoiseAt(noiseFunc,
                              RealTimes(Whole(x), config.noiseScale),
                              RealTimes(RealTimes(Whole(z), config.noiseScale),
                                        NOISE_Z_SCALE_FACTOR),
                              RealTimes(Whole(time), config.waveSpeed))
        waveHeight == RealTimes(RealTimes(RealMinus(noiseValue, NOISE_CENTER_OFFSET),
                                          Whole(AMPLITUDE_RANGE_MULTIPLIER)),
                                scaledAmplitude)
    IN waveHeight

\* const normalizedHeight = (waveHeight + amplitude) / (2 * amplitude)
normalizedHeight(waveHeight, amplitude) ==
    RealDivide(RealPlus(waveHeight, amplitude),
               RealTimes(Whole(AMPLITUDE_RANGE_MULTIPLIER), amplitude))

\* Foam strictly above the threshold only.
shouldRenderFoamAbove(waveHeight, amplitude, threshold) ==
    RealGreater(normalizedHeight(waveHeight, amplitude), threshold)

\* shouldRenderFoam(waveHeight, amplitude, threshold)
shouldRenderFoam(waveHeight, amplitude, threshold) ==
    RealGeq(normalizedHeight(waveHeight, amplitude), threshold)

\* One channel: Math.round(DISTANT + (BASE - DISTANT) * t)
Channel(distant, base, t) ==
    MathRound(RealPlus(Whole(distant), RealTimes(Whole(base - distant), t)))

\* The interpolation without the guard on a single layer.
getWaveLayerColorUnguarded(layerIndex, totalLayers) ==
    LET t == RealDivide(Whole(layerIndex), Whole(totalLayers - 1))
    IN [r |-> Channel(DISTANT_WAVE_COLOR.r, BASE_WAVE_COLOR.r, t),
        g |-> Channel(DISTANT_WAVE_COLOR.g, BASE_WAVE_COLOR.g, t),
        b |-> Channel(DISTANT_WAVE_COLOR.b, BASE_WAVE_COLOR.b, t)]

\* getWaveLayerColor(layerIndex, totalLayers)
getWaveLayerColor(layerIndex, totalLayers) ==
    LET t == IF totalLayers > 1
             THEN RealDivide(Whole(layerIndex), Whole(totalLayers - 1))
             ELSE Whole(0)
    IN [r |-> Channel(DISTANT_WAVE_COLOR.r, BASE_WAVE_COLOR.r, t),
        g |-> Channel(DISTANT_WAVE_COLOR.g, BASE_WAVE_COLOR.g, t),
        b |-> Channel(DISTANT_WAVE_COLOR.b, BASE_WAVE_COLOR.b, t)]

\* The particle count without the minimum.
particleCountNoMinimum(foamIntensity) ==
    MathFloor(RealTimes(foamIntensity, Whole(FOAM_MAX_PARTICLES_MULTIPLIER)))

\* drawFoam: const particleCount = Math.floor(FOAM_MIN_PARTICLES +
\* foamIntensity * FOAM_MAX_PARTICLES_MULTIPLIER)
particleCount(foamIntensity) ==
    MathFloor(RealPlus(Whole(FOAM_MIN_PARTICLES),
                       RealTimes(foamIntensity, Whole(FOAM_MAX_PARTICLES_MULTIPLIER))))

\* The record of a call of an ocean-wave function fn, and of the call before
\* it when that was a call of fn too.
NoOceanCall == [fn |-> "none", args |-> <<>>, result |-> <<>>,
                before |-> [fn |-> "none", args |-> <<>>, result |-> <<>>]]
OceanCall(fn, args, result) ==
    [fn |-> fn, args |-> args, result |-> result,
     before |-> IF ocean.fn = fn
                THEN [fn |-> fn, args |-> ocean.args, result |-> ocean.result]
                ELSE NoOceanCall.before]

\* ------------------------------------------------- the OceanWaves component
\* The repository holds the component twice: components/apps/OceanWaves.svelte
\* and a revision of it.  Both are modelled; waves.component says which one is
\* mounted.  The analyser of both has fftSize 2048, the value of FFT_SIZE.
Components == {"OceanWaves.svelte", "revision"}

SAMPLE_RATE == 44100
LOW_FREQ_MIN == 20
LOW_FREQ_MAX == 250
MID_FREQ_MIN == 250
MID_FREQ_MAX == 4000
HIGH_FREQ_MIN == 4000
HIGH_FREQ_MAX == 20000
AMPLITUDE_SCALE_FACTOR == Ratio(2, 1000)

\* analyser.frequencyBinCount, the length of dataArray
frequencyBinCount == FFT_SIZE \div 2

\* The contents of a Uint8Array(frequencyBinCount): byte `below` in the bins
\* under `cut`, byte `above` in the others.  A new array is filled with 0.
NullArray == [alloc |-> FALSE, cut |-> 0, below |-> 0, above |-> 0]
Spectrum(cut, below, above) ==
    [alloc |-> TRUE, cut |-> cut, below |-> below, above |-> above]
ZeroFilled == Spectrum(0, 0, 0)
byteAt(dataArray, i) == IF i < dataArray.cut THEN dataArray.below ELSE dataArray.above

\* What getByteFrequencyData can deliver: silence, energy from bin 11 up, and
\* energy under bin 171.
Spectra == {ZeroFilled, Spectrum(11, 0, 255), Spectrum(171, 255, 0)}

\* The sample rates an AudioContext comes with.
SampleRates == {8000, 44100, 48000}

\* Math.floor(freq / binSize) with binSize = sampleRate / FFT_SIZE; for the
\* band edges and the sample rates here the double-precision quotient floors
\* to the same integer as the exact one.
binOf(freq, sampleRate) == (freq * FFT_SIZE) \div sampleRate

\* The bins the loop of getEnergyInRange / computeEnergyInRange visits:
\* i = minBin; i <= maxBin && i < dataArray.length
binsInRange(sampleRate, minFreq, maxFreq) ==
    {i \in 0 .. (frequencyBinCount - 1) :
        binOf(minFreq, sampleRate) <= i /\ i <= binOf(maxFreq, sampleRate)}

\* The sum of dataArray[i] over from <= i < to, by halves.
RECURSIVE sumBytes(_, _, _)
sumBytes(dataArray, from, to) ==
    IF to <= from THEN 0
    ELSE IF to = from + 1 THEN byteAt(dataArray, from)
    ELSE LET m == (from + to) \div 2
         IN sumBytes(dataArray, from, m) + sumBytes(dataArray, m, to)

\* The body of getEnergyInRange / computeEnergyInRange after the null checks:
\*   for (i = minBin; i <= maxBin && i < dataArray.length; i++) { sum += dataArray[i]; count++ }
\*   return count > 0 ? sum / count : 0
\* The loop runs over minBin <= i < end, with maxBin included.
energyInRange(dataArray, sampleRate, minFreq, maxFreq) ==
    LET minBin == binOf(minFreq, sampleRate)
        maxBin == binOf(maxFreq, sampleRate)
        end == IF maxBin + 1 < frequencyBinCount THEN maxBin + 1 ELSE frequencyBinCount
        count == IF end > minBin THEN end - minBin ELSE 0
        sum == sumBytes(dataArray, minBin, end)
    IN IF count > 0 THEN Ratio(sum, count) ELSE Whole(0)

\* energyInRange, tabulated over the buffers, rates and bands that occur.
Bands == {<<LOW_FREQ_MIN, LOW_FREQ_MAX>>, <<MID_FREQ_MIN, MID_FREQ_MAX>>,
          <<HIGH_FREQ_MIN, HIGH_FREQ_MAX>>}
EnergyTable ==
    [dataArray \in Spectra, sampleRate \in SampleRates, band \in Bands |->
        energyInRange(dataArray, sampleRate, band[1], band[2])]

\* What one p.draw did: the buffers it read from the analyser, in order, and
\* the amplitude it drew each layer with (layer L at position L + 1).
NoFrame == [reads |-> <<>>, amplitudes |-> <<>>]

\* The script variables after onMount; time counts the increments of
\* waveSpeed * TIME_INCREMENT_MULTIPLIER.
Mounted(component, audioUrl) ==
    [component |-> component,
     audioElement |-> audioUrl, audioLoaded |-> FALSE,
     audioContext |-> [created |-> FALSE, sampleRate |-> 0],
     sampleRate |-> SAMPLE_RATE,
     analyser |-> FALSE, dataArray |-> NullArray,
     audioIsPlaying |-> FALSE, pending |-> 0,
     isPlaying |-> TRUE, time |-> 0,
     lowEnergy |-> Whole(0), midEnergy |-> Whole(0), highEnergy |-> Whole(0),
     waveConfig |-> DEFAULT_OCEAN_CONFIG,
     frame |-> NoFrame]

\* No component on the page.
NotMounted == [Mounted("none", FALSE) EXCEPT !.isPlaying = FALSE]

\* toggleAnimation()
toggleAnimation(w) == [w EXCEPT !.isPlaying = ~@]

\* The "canplaythrough" listener.
canplaythrough(w) == [w EXCEPT !.audioLoaded = TRUE]

\* toggleAudio(), up to its await: the context, analyser and buffer are made on
\* the first call; only the revision takes the context's sample rate.
toggleAudio(w, rate) ==
    IF ~w.audioElement \/ ~w.audioLoaded THEN w
    ELSE LET c == IF w.audioContext.created THEN w
                  ELSE [w EXCEPT !.audioContext = [created |-> TRUE, sampleRate |-> rate],
                                 !.sampleRate = IF w.component = "revision"
                                                THEN rate ELSE @,
                                 !.analyser = TRUE,
                                 !.dataArray = ZeroFilled]
         IN IF c.audioIsPlaying THEN [c EXCEPT !.audioIsPlaying = FALSE]
            ELSE [c EXCEPT !.pending = @ + 1]

\* toggleAudio(), when the awaited audioElement.play() settles: the revision
\* catches a rejection and clears audioIsPlaying, OceanWaves.svelte lets it
\* escape.
toggleAudioSettles(w, resolved) ==
    LET c == [w EXCEPT !.pending = @ - 1]
    IN IF resolved THEN [c EXCEPT !.audioIsPlaying = TRUE]
       ELSE IF w.component = "revision" THEN [c EXCEPT !.audioIsPlaying = FALSE]
       ELSE c

\* analyser.getByteFrequencyData(dataArray), the analyser delivering `read`
getByteFrequencyData(w, read) ==
    [w EXCEPT !.dataArray = read, !.frame.reads = Append(@, read)]

\* getEnergyInRange(minFreq, maxFreq) of OceanWaves.svelte: reads the analyser
\* itself and converts with SAMPLE_RATE.
getEnergyInRange(w, read, minFreq, maxFreq) ==
    IF ~w.analyser \/ ~w.dataArray.alloc THEN [w |-> w, energy |-> Whole(0)]
    ELSE [w |-> getByteFrequencyData(w, read),
          energy |-> EnergyTable[read, SAMPLE_RATE, <<minFreq, maxFreq>>]]

\* computeEnergyInRange(minFreq, maxFreq) of the revision: works on the buffer
\* as it is and converts with the sampleRate variable.
computeEnergyInRange(w, minFreq, maxFreq) ==
    IF ~w.dataArray.alloc \/ ~w.audioContext.created THEN Whole(0)
    ELSE EnergyTable[w.dataArray, w.sampleRate, <<minFreq, maxFreq>>]

\* A layerAmplitude that adds the energy of the band whether or not audio is
\* playing.
layerAmplitudeAlways(w, layer) ==
    RealPlus(w.waveConfig.amplitude,
             RealTimes(IF layer <= 1 THEN w.lowEnergy
                       ELSE IF layer <= 3 THEN w.midEnergy
                       ELSE w.highEnergy,
                       AMPLITUDE_SCALE_FACTOR))

\* drawWaveLayers: the amplitude of one layer
layerAmplitude(w, layer) ==
    IF w.audioIsPlaying /\ w.analyser
    THEN RealPlus(w.waveConfig.amplitude,
                  RealTimes(IF layer <= 1 THEN w.lowEnergy
                            ELSE IF layer <= 3 THEN w.midEnergy
                            ELSE w.highEnergy,
                            AMPLITUDE_SCALE_FACTOR))
    ELSE w.waveConfig.amplitude

\* drawWaveLayers: for (layer = 0; layer < layers; layer++)
drawWaveLayers(w) ==
    [w EXCEPT !.frame.amplitudes =
                 [p \in 1 .. w.waveConfig.layers |-> layerAmplitude(w, p - 1)]]

\* if (isPlaying) time += waveConfig.waveSpeed * TIME_INCREMENT_MULTIPLIER
advanceTime(w) == IF w.isPlaying THEN [w EXCEPT !.time = @ + 1] ELSE w

\* p.draw of OceanWaves.svelte; r1, r2, r3 are what the analyser delivers to
\* the three getEnergyInRange calls.
draw(w, r1, r2, r3) ==
    LET w0 == [w EXCEPT !.frame = NoFrame]
        low == getEnergyInRange(w0, r1, LOW_FREQ_MIN, LOW_FREQ_MAX)
        mid == getEnergyInRange(low.w, r2, MID_FREQ_MIN, MID_FREQ_MAX)
        high == getEnergyInRange(mid.w, r3, HIGH_FREQ_MIN, HIGH_FREQ_MAX)
        w1 == IF w0.audioIsPlaying /\ w0.analyser
              THEN [high.w EXCEPT !.lowEnergy = low.energy,
                                  !.midEnergy = mid.energy,
                                  !.highEnergy = high.energy]
              ELSE w0
    IN drawWaveLayers(advanceTime(w1))

\* p.draw of the revision; r1 is what the analyser delivers.
drawRevision(w, r1) ==
    LET w0 == [w EXCEPT !.frame = NoFrame]
        w1 == IF w0.audioIsPlaying /\ w0.analyser /\ w0.dataArray.alloc
              THEN LET d == getByteFrequencyData(w0, r1)
                   IN [d EXCEPT
                         !.lowEnergy = computeEnergyInRange(d, LOW_FREQ_MIN, LOW_FREQ_MAX),
                         !.midEnergy = computeEnergyInRange(d, MID_FREQ_MIN, MID_FREQ_MAX),
                         !.highEnergy = computeEnergyInRange(d, HIGH_FREQ_MIN, HIGH_FREQ_MAX)]
              ELSE w0
    IN drawWaveLayers(advanceTime(w1))

\* ------------------------------------------------------------------- Init
\* new HarmonicsEngine(): no audio context, no bindings, the default state.
EngineInit ==
    /\ audioCtx = "null"
    /\ masterGain = NullGain
    /\ analyser = NullAnalyser
    /\ ctxCreated = 0
    /\ isPlaying = FALSE
    /\ fundamentalFreq = Finite(DEFAULT_FUNDAMENTAL)
    /\ masterVolume = DEFAULT_MASTER_VOLUME
    /\ harmonics = DefaultHarmonics
    /\ nodes = NoNodes
    /\ oscCreated = 0
    /\ sounding = {}
    /\ tasks = <<>>
    /\ snap = NoSnap
    /\ ocean = NoOceanCall
    /\ last = Outcome("new", "returned", NoIndex, NaN, FALSE, FALSE, "void", NoPrev)

Init == EngineInit /\ callerAwaits = TRUE /\ waves = NotMounted

\* The initial-state overrides a caller passes to the constructor: a harmonics
\* array of its own, with the first two or the first and the last harmonic
\* active.
OverrideInputs ==
    {[harmonics |-> [DefaultHarmonics EXCEPT ![i].active = TRUE]] :
        i \in {1, NUM_HARMONICS - 1}}

\* A field of the state: the default, unless ...initialState overrides it.
Overridden(initialState, field, default) ==
    IF field \in DOMAIN initialState THEN initialState[field] ELSE default

\* constructor(initialState): this.state = { defaults, ...initialState }
constructor(initialState) ==
    [fundamentalFreq |-> Overridden(initialState, "fundamentalFreq",
                                    Finite(DEFAULT_FUNDAMENTAL)),
     masterVolume |-> Overridden(initialState, "masterVolume", DEFAULT_MASTER_VOLUME),
     harmonics |-> Overridden(initialState, "harmonics", DefaultHarmonics),
     isPlaying |-> Overridden(initialState, "isPlaying", FALSE)]

\* What the override object the caller still holds shares with the engine: the
\* spread copies the fields of initialState, so state.harmonics IS the
\* caller's array and its elements ARE the caller's harmonic objects.
OverrideRefs(initialState) ==
    [held |-> TRUE, stateAlias |-> FALSE,
     arrayAlias |-> "harmonics" \in DOMAIN initialState,
     itemAlias |-> [i \in Indices |-> "harmonics" \in DOMAIN initialState]]

\* new HarmonicsEngine(initialState), by a caller that keeps initialState.
InitOverride ==
    \E initialState \in OverrideInputs :
       /\ audioCtx = "null"
       /\ masterGain = NullGain
       /\ analyser = NullAnalyser
       /\ ctxCreated = 0
       /\ isPlaying = constructor(initialState).isPlaying
       /\ fundamentalFreq = constructor(initialState).fundamentalFreq
       /\ masterVolume = constructor(initialState).masterVolume
       /\ harmonics = constructor(initialState).harmonics
       /\ nodes = NoNodes
       /\ oscCreated = 0
       /\ sounding = {}
       /\ tasks = <<>>
       /\ snap = OverrideRefs(initialState)
       /\ ocean = NoOceanCall
       /\ waves = NotMounted
       /\ last = Outcome("new", "returned", NoIndex, NaN, FALSE, FALSE, "void", NoPrev)
       /\ callerAwaits = TRUE

\* Overrides that set isPlaying, beside a harmonics array of the caller's own
\* (the default one, or one with the second harmonic active as well).
PlayingOverrideInputs ==
    {[isPlaying |-> p, harmonics |-> [DefaultHarmonics EXCEPT ![1].active = a]] :
        p \in BOOLEAN, a \in BOOLEAN}

\* new HarmonicsEngine({ isPlaying, harmonics })
InitPlayingOverride ==
    \E initialState \in PlayingOverrideInputs :
       /\ audioCtx = "null"
       /\ masterGain = NullGain
       /\ analyser = NullAnalyser
       /\ ctxCreated = 0
       /\ isPlaying = constructor(initialState).isPlaying
       /\ fundamentalFreq = constructor(initialState).fundamentalFreq
       /\ masterVolume = constructor(initialState).masterVolume
       /\ harmonics = constructor(initialState).harmonics
       /\ nodes = NoNodes
       /\ oscCreated = 0
       /\ sounding = {}
       /\ tasks = <<>>
       /\ snap = OverrideRefs(initialState)
       /\ ocean = NoOceanCall
       /\ waves = NotMounted
       /\ last = Outcome("new", "returned", NoIndex, NaN, FALSE, FALSE, "void", NoPrev)
       /\ callerAwaits = TRUE

InitAsync == EngineInit /\ callerAwaits = FALSE /\ waves = NotMounted

\* ---------------------------------------------------------------- actions
\* The oscillators the backend has already finalized when a method runs, so
\* that stopping them throws: none of the bound ones, or all of them.
Finalized == {{}, DOMAIN nodes}

Quiet == UNCHANGED <<tasks, callerAwaits, snap, ocean, waves>>

\* The pending calls, each noting whether stop() was called since the latest
\* play() or togglePlay() request.
Requested(ts, stopped) == [k \in DOMAIN ts |-> [ts[k] EXCEPT !.stopped = stopped]]

\* init()
InitAudio ==
    /\ CallAllowed
    /\ audioCtx = "null"
    /\ \E st \in CtxStates : Commit(EnsureAudioContext(Cur, st))
    /\ last' = Call("init", NoIndex, NaN, FALSE, "void")
    /\ Quiet

\* init() again: ensureAudioContext returns at once.
InitAudioAgain ==
    /\ CallAllowed
    /\ audioCtx # "null"
    /\ Commit(EnsureAudioContext(Cur, audioCtx))
    /\ last' = Call("init", NoIndex, NaN, FALSE, "void")
    /\ Quiet

\* The state a context constructed now would start in.
NewCtxStates == IF audioCtx = "null" THEN CtxStates ELSE {audioCtx}

\* play(): runs to its end unless it has to await resume().
Play ==
    /\ CallAllowed
    /\ \E st \in NewCtxStates, fin \in Finalized :
         LET e1 == playBegin(Cur, st)
             e2 == playFinish(e1, fin)
         IN IF playAwaitsResume(e1)
            THEN /\ Len(tasks) < MaxTasks
                 /\ Commit(e1)
                 /\ tasks' = Append(Requested(tasks, FALSE),
                                    [kind |-> "play", stage |-> "resume",
                                     from |-> isPlaying, prev |-> NoPrev,
                                     stopped |-> FALSE])
                 /\ last' = Event("play", "called", NoIndex, NaN, isPlaying, FALSE,
                                  "void", NoPrev)
            ELSE /\ Commit(e2)
                 /\ tasks' = Requested(tasks, FALSE)
                 /\ last' = Call("play", NoIndex, NaN, e2.threw, "void")
    /\ UNCHANGED <<callerAwaits, snap, ocean, waves>>

\* stop()
Stop ==
    /\ CallAllowed
    /\ \E fin \in Finalized :
         LET e1 == stop(Cur, fin)
         IN /\ Commit(e1)
            /\ last' = Call("stop", NoIndex, NaN, e1.threw, "void")
    /\ tasks' = Requested(tasks, TRUE)
    /\ UNCHANGED <<callerAwaits, snap, ocean, waves>>

\* togglePlay(): stop() and an immediate result when playing; otherwise
\* play(), after which the method awaits play()'s promise before returning.
TogglePlay ==
    /\ CallAllowed
    /\ \E st \in NewCtxStates, fin \in Finalized :
         IF togglePlayBranch(Cur) = "stop"
         THEN LET e1 == stop(Cur, fin)
              IN /\ Commit(e1)
                 /\ tasks' = Requested(tasks, FALSE)
                 /\ last' = Call("togglePlay", NoIndex, NaN, e1.threw,
                                 IF e1.threw THEN "void" ELSE BoolStr(togglePlayResult(e1)))
         ELSE LET e1 == playBegin(Cur, st)
                  e2 == playFinish(e1, fin)
                  t == [kind |-> "togglePlay", stage |-> "resume", from |-> isPlaying,
                        prev |-> Prev("togglePlay", NoIndex), stopped |-> FALSE]
              IN /\ Len(tasks) < MaxTasks
                 /\ last' = Event("togglePlay", "called", NoIndex, NaN, isPlaying, FALSE,
                                  "void", t.prev)
                 /\ IF playAwaitsResume(e1)
                    THEN /\ Commit(e1)
                         /\ tasks' = Append(Requested(tasks, FALSE), t)
                    ELSE /\ Commit(e2)
                         /\ tasks' = Append(Requested(tasks, FALSE),
                                            [t EXCEPT !.stage = "return"])
    /\ UNCHANGED <<callerAwaits, snap, ocean, waves>>

\* A pending resume() settles.  resolved: the context is running from now on
\* and the awaiting play() goes on; otherwise the await throws.  A rejection
\* happens only while the context is still suspended.
ResumeSettles(k, resolved) ==
    /\ k \in 1 .. Len(tasks)
    /\ tasks[k].stage = "resume"
    /\ resolved \/ audioCtx = "suspended"
    /\ \E fin \in Finalized :
         LET e0 == IF resolved THEN [Cur EXCEPT !.audioCtx = "running"] ELSE Cur
             e1 == playResumed(e0, resolved, fin)
             t == tasks[k]
             how == IF resolved THEN "resolved" ELSE "rejected"
         IN /\ Commit(e1)
            /\ IF t.kind = "togglePlay" /\ ~e1.threw
               THEN /\ tasks' = [tasks EXCEPT ![k].stage = "return"]
                    /\ last' = Settled(Event("togglePlay", "resumed", NoIndex, NaN,
                                              t.from, FALSE, "void", t.prev), how)
               ELSE /\ tasks' = Remove(tasks, k)
                    /\ last' = Settled(Event(t.kind,
                                              IF e1.threw THEN "rejected" ELSE "returned",
                                              NoIndex, NaN, t.from, e1.threw, "void",
                                              t.prev), how)
    /\ UNCHANGED <<callerAwaits, snap, ocean, waves>>

ResumeResolves == \E k \in 1 .. MaxTasks : ResumeSettles(k, TRUE)

ResumeRejects == \E k \in 1 .. MaxTasks : ResumeSettles(k, FALSE)

\* togglePlay() resumes after "await this.play()" and returns isPlaying.
TogglePlayReturns ==
    /\ \E k \in 1 .. Len(tasks) :
         /\ tasks[k].kind = "togglePlay"
         /\ tasks[k].stage = "return"
         /\ tasks' = Remove(tasks, k)
         /\ last' = Event("togglePlay", "returned", NoIndex, NaN, tasks[k].from, FALSE,
                          BoolStr(togglePlayResult(Cur)), tasks[k].prev)
    /\ UNCHANGED engineVars
    /\ UNCHANGED <<callerAwaits, snap, ocean, waves>>

\* setFundamental(freq)
SetFundamental ==
    /\ CallAllowed
    /\ \E freq \in FreqInputs :
         LET e1 == setFundamental(Cur, freq)
         IN /\ Commit(e1)
            /\ last' = Call("setFundamental", NoIndex, freq, e1.threw, "void")
    /\ Quiet

\* setFrequency(freq)
SetFrequency ==
    /\ CallAllowed
    /\ \E freq \in FreqInputs :
         LET e1 == setFrequency(Cur, freq)
         IN /\ Commit(e1)
            /\ last' = Call("setFrequency", NoIndex, freq, e1.threw, "void")
    /\ Quiet

\* setMasterVolume(vol)
SetMasterVolume ==
    /\ CallAllowed
    /\ \E vol \in MasterVolumeInputs :
         LET e1 == setMasterVolume(Cur, vol)
         IN /\ Commit(e1)
            /\ last' = Call("setMasterVolume", NoIndex, NaN, e1.threw, "void")
    /\ Quiet

\* toggleHarmonic(index)
ToggleHarmonic ==
    /\ CallAllowed
    /\ \E index \in IndexInputs, fin \in Finalized :
         LET e1 == toggleHarmonic(Cur, index, fin)
         IN /\ Commit(e1)
            /\ last' = Call("toggleHarmonic", index, NaN, e1.threw, "void")
    /\ Quiet

\* setHarmonicVolume(index, vol)
SetHarmonicVolume ==
    /\ CallAllowed
    /\ \E index \in VolumeIndexInputs, vol \in VolumeInputs :
         LET e1 == setHarmonicVolume(Cur, index, vol)
         IN /\ Commit(e1)
            /\ last' = Call("setHarmonicVolume", index, NaN, e1.threw, "void")
    /\ Quiet

\* getState(): the caller keeps the returned snapshot.
GetState ==
    /\ CallAllowed
    /\ snap' = Refs(getState(Cur))
    /\ last' = Call("getState", NoIndex, NaN, FALSE, "void")
    /\ UNCHANGED engineVars
    /\ UNCHANGED <<tasks, callerAwaits, ocean, waves>>

\* The caller writes to the snapshot it holds.
MutateSnapshot ==
    /\ CallAllowed
    /\ snap.held
    /\ \E what \in {"scalar", "element", "field"}, i \in SnapIndexInputs,
          vol \in VolumeInputs :
         LET r == mutateSnapshot(snap, Cur, what, i, vol)
         IN /\ snap' = r.snap
            /\ Commit(r.eng)
            /\ last' = Event("mutateSnapshot", what, i, NaN, isPlaying, FALSE, "void",
                             NoPrev)
    /\ UNCHANGED <<tasks, callerAwaits, ocean, waves>>

Next ==
    \/ InitAudio
    \/ InitAudioAgain
    \/ Play
    \/ Stop
    \/ TogglePlay
    \/ ResumeResolves
    \/ ResumeRejects
    \/ TogglePlayReturns
    \/ SetFundamental
    \/ SetFrequency
    \/ SetMasterVolume
    \/ ToggleHarmonic
    \/ SetHarmonicVolume
    \/ GetState
    \/ MutateSnapshot

\* Callers that await every asynchronous call.
Spec == Init /\ [][Next]_vars

\* The calls that interleave with a play() suspended on resume().
NextAsync ==
    \/ InitAudio
    \/ InitAudioAgain
    \/ Play
    \/ Stop
    \/ TogglePlay
    \/ ResumeResolves
    \/ ResumeRejects
    \/ TogglePlayReturns
    \/ SetFundamental
    \/ ToggleHarmonic
    \/ SetHarmonicVolume

\* Callers that do not await.
SpecAsync == InitAsync /\ [][NextAsync]_vars

\* An engine constructed with an override the caller keeps and writes to.
SpecOverride == InitOverride /\ [][Next]_vars

\* An engine constructed with an override that sets isPlaying.
SpecPlayingOverride == InitPlayingOverride /\ [][Next]_vars

\* ------------------------------------------------- ocean-wave function calls
\* Layer indices run from 0 to MaxLayer; layer counts up to MaxTotalLayers;
\* foam intensities are the multiples of 1/IntensitySteps in [0, 1].
MaxLayer == 4
MaxTotalLayers == 52
IntensitySteps == 20

XInputs == {5}
TimeInputs == {0}
LayerInputs == 0 .. MaxLayer
NoiseInputs == {Whole(0), Ratio(1, 4), Ratio(1, 2), Ratio(3, 4), Whole(1)}
ConfigInputs ==
    {[DEFAULT_OCEAN_CONFIG EXCEPT !.amplitude = a, !.perspective = p] :
        a \in {Whole(0), Whole(50)}, p \in {Whole(0), Ratio(1, 4), Ratio(6, 10)}}
WaveHeightInputs ==
    {Whole(-60), Whole(-50), Whole(0), Whole(10), Ratio(99, 2), Whole(50)}
AmplitudeInputs == {Whole(-50), Whole(0), Whole(50)}
ThresholdInputs == {Whole(0), Ratio(7, 10), Whole(1)}
TotalLayersInputs == {1, 2, 5, MaxTotalLayers - 1, MaxTotalLayers}
IntensityInputs == {Ratio(k, IntensitySteps) : k \in 0 .. IntensitySteps}

EngineIdle == UNCHANGED <<engineVars, tasks, callerAwaits, snap, waves, last>>

\* The functions are pure: a result depends on no call before it.  So a call
\* of fn is followed by one more call of fn, the two are compared, and no
\* longer sequence of calls is followed.
Comparable(fn) == ocean.fn \in {"none", fn} /\ ocean.before.fn = "none"

\* calculateWavePoint(x, z, time, config, noiseFunc) with a constant noise
CalculateWavePoint ==
    /\ Comparable("calculateWavePoint")
    /\ \E x \in XInputs, z \in LayerInputs, time \in TimeInputs,
          config \in ConfigInputs, noise \in NoiseInputs :
         ocean' = OceanCall("calculateWavePoint",
                            [x |-> x, z |-> z, time |-> time,
                             config |-> config, noise |-> noise],
                            calculateWavePoint(x, z, time, config, constantNoise(noise)))
    /\ EngineIdle

\* shouldRenderFoam(waveHeight, amplitude, threshold)
ShouldRenderFoam ==
    /\ Comparable("shouldRenderFoam")
    /\ \E waveHeight \in WaveHeightInputs, amplitude \in AmplitudeInputs,
          threshold \in ThresholdInputs :
         ocean' = OceanCall("shouldRenderFoam",
                            [waveHeight |-> waveHeight, amplitude |-> amplitude,
                             threshold |-> threshold],
                            shouldRenderFoam(waveHeight, amplitude, threshold))
    /\ EngineIdle

\* getWaveLayerColor(layerIndex, totalLayers)
GetWaveLayerColor ==
    /\ Comparable("getWaveLayerColor")
    /\ \E totalLayers \in TotalLayersInputs :
         \E layerIndex \in 0 .. (totalLayers - 1) :
            ocean' = OceanCall("getWaveLayerColor",
                               [layerIndex |-> layerIndex, totalLayers |-> totalLayers],
                               getWaveLayerColor(layerIndex, totalLayers))
    /\ EngineIdle

\* drawFoam at one sample point of foam intensity foamIntensity
DrawFoam ==
    /\ Comparable("particleCount")
    /\ \E foamIntensity \in IntensityInputs :
         ocean' = OceanCall("particleCount", [foamIntensity |-> foamIntensity],
                            particleCount(foamIntensity))
    /\ EngineIdle

NextOcean ==
    \/ CalculateWavePoint
    \/ ShouldRenderFoam
    \/ GetWaveLayerColor
    \/ DrawFoam

\* Calls of the ocean-wave functions, in any order.
SpecOcean == Init /\ [][NextOcean]_vars

\* ------------------------------------------------ the component's handlers
\* Frames drawn while the animation runs (caps the time counter), and
\* audioElement.play() calls pending at once.
MaxTime == 2
MaxPending == 1

InitFrame ==
    /\ EngineInit
    /\ callerAwaits = TRUE
    /\ waves \in {Mounted(c, audioUrl) : c \in Components, audioUrl \in BOOLEAN}

ComponentOnly == UNCHANGED <<engineVars, tasks, callerAwaits, snap, ocean, last>>

\* The audio element reports "canplaythrough".
CanPlayThrough ==
    /\ waves.audioElement
    /\ waves' = canplaythrough(waves)
    /\ ComponentOnly

\* The animation button.
ToggleAnimation ==
    /\ waves' = toggleAnimation(waves)
    /\ ComponentOnly

\* The audio button.
ToggleAudio ==
    /\ \E rate \in SampleRates :
         /\ toggleAudio(waves, rate).pending <= MaxPending
         /\ waves' = toggleAudio(waves, rate)
    /\ ComponentOnly

\* audioElement.play() resolves.
AudioPlayResolves ==
    /\ waves.pending > 0
    /\ waves' = toggleAudioSettles(waves, TRUE)
    /\ ComponentOnly

\* audioElement.play() rejects.
AudioPlayRejects ==
    /\ waves.pending > 0
    /\ waves' = toggleAudioSettles(waves, FALSE)
    /\ ComponentOnly

\* One animation frame: p.draw of the mounted component.
Draw ==
    /\ waves.isPlaying => waves.time < MaxTime
    /\ \E r1, r2, r3 \in Spectra :
         waves' = IF waves.component = "revision"
                  THEN drawRevision(waves, r1)
                  ELSE draw(waves, r1, r2, r3)
    /\ ComponentOnly

NextFrame ==
    \/ CanPlayThrough
    \/ ToggleAnimation
    \/ ToggleAudio
    \/ AudioPlayResolves
    \/ AudioPlayRejects
    \/ Draw

\* The mounted component: its buttons, its audio element and its frames.
SpecFrame == InitFrame /\ [][NextFrame]_vars

\* ================================================================= claims

\* C1: for a default-constructed engine, after any sequence of calls: while
\* isPlaying the bound indices are exactly the active harmonics, each bound
\* to an oscillator of its own, and while not isPlaying nothing is bound.
C1_BindingsMatchActive ==
    /\ isPlaying => DOMAIN nodes = Active(Cur)
    /\ ~isPlaying => DOMAIN nodes = {}
    /\ \A i, j \in DOMAIN nodes : i # j => nodes[i].osc # nodes[j].osc

\* Playing with two harmonics bound, after one was toggled on.
C1_Witness ==
    /\ isPlaying
    /\ Cardinality(DOMAIN nodes) = 2
    /\ last.op = "toggleHarmonic"

\* C2: stop() returns without error from any state and leaves isPlaying false
\* and no binding; a stop() right after a stop() changes nothing.
C2_StopConverges ==
    /\ [](last.op = "stop" => ~last.threw /\ ~isPlaying /\ DOMAIN nodes = {})
    /\ [][(last.op = "stop" /\ last'.op = "stop") => UNCHANGED engineVars]_vars

\* A stop() called right after a stop() that was called while Playing.
C2_Witness ==
    /\ last.op = "stop"
    /\ last.prev.same
    /\ last.prev.from
    /\ ~last.from
    /\ oscCreated > 0

C5_ToggleHarmonicFrame ==
    [][\A i \in Indices :
         (last'.op = "toggleHarmonic" /\ last'.idx = i /\ isPlaying)
         => IF ~harmonics[i].active
            THEN /\ i \notin DOMAIN nodes
                 /\ DOMAIN nodes' = DOMAIN nodes \cup {i}
                 /\ oscCreated' = oscCreated + 1
                 /\ nodes'[i].osc = oscCreated'
                 /\ \A j \in DOMAIN nodes : nodes'[j] = nodes[j]
            ELSE /\ i \in DOMAIN nodes
                 /\ DOMAIN nodes' = DOMAIN nodes \ {i}
                 /\ oscCreated' = oscCreated
                 /\ \A j \in DOMAIN nodes' : nodes'[j] = nodes[j]]_vars

\* Harmonic 1 toggled on and off again while Playing; index 0 still bound.
C5_Witness ==
    /\ last.op = "toggleHarmonic"
    /\ last.idx = 1
    /\ last.from
    /\ last.prev.same
    /\ last.prev.from
    /\ isPlaying
    /\ ~harmonics[1].active
    /\ DOMAIN nodes = {0}
    /\ oscCreated >= 2

C7_SnapshotIsolated ==
    [][last'.op = "mutateSnapshot"
       => /\ View(getState(Cur))' = View(getState(Cur))
          /\ nodes' = nodes]_vars

\* The caller has written to a harmonic of a snapshot while the engine plays.
C7_Witness ==
    /\ last.op = "mutateSnapshot"
    /\ last.phase = "field"
    /\ snap.held
    /\ isPlaying
    /\ Cardinality(DOMAIN nodes) = 2

C10_DefaultState ==
    last.op = "new"
    => LET s == View(getState(Cur))
       IN /\ Length(s.harmonics) = 16
          /\ DOMAIN s.harmonics = 0 .. 15
          /\ \A i \in DOMAIN s.harmonics :
               /\ s.harmonics[i].number = i + 1
               /\ s.harmonics[i].active = (i = 0)
          /\ ~s.isPlaying
          /\ DOMAIN nodes = {}

\* The engine right after construction.
C10_Witness ==
    /\ last.op = "new"
    /\ audioCtx = "null"
    /\ oscCreated = 0
    /\ tasks = <<>>

\* C11: setFrequency(f) with a finite positive f makes
\* getState().fundamentalFreq equal f, Stopped or Playing, and changes
\* neither isPlaying, the harmonics nor the set of bound indices.
C11_SetFrequencyFrame ==
    [][(/\ last'.op = "setFrequency"
        /\ last'.freq.kind = "finite"
        /\ last'.freq.v > 0)
       => (/\ getState(Cur)'.fundamentalFreq = last'.freq
           /\ isPlaying' = isPlaying
           /\ harmonics' = harmonics
           /\ DOMAIN nodes' = DOMAIN nodes
           /\ ~last'.threw)]_vars

\* setFrequency(440) was called on a Stopped engine whose fundamental was 220
\* until then.
C11_Witness ==
    /\ last.op = "setFrequency"
    /\ last.freq = Finite(440)
    /\ ~last.from
    /\ ~isPlaying
    /\ fundamentalFreq = Finite(440)
    /\ Active(Cur) # {}

\* C12: shouldRenderFoam(waveHeight, amplitude, threshold) returns false for
\* every amplitude <= 0, whatever the height and the threshold, and divides
\* by nothing that is zero: its normalized height is a finite number.
C12_NoFoamWithoutAmplitude ==
    (/\ ocean.fn = "shouldRenderFoam"
     /\ RealGeq(Whole(0), ocean.args.amplitude))
    => (/\ ocean.result = FALSE
        /\ normalizedHeight(ocean.args.waveHeight, ocean.args.amplitude).kind
              = "finite")

\* C13: in calculateWavePoint the depth scale is never negative, so the
\* height is 0 for every layer with z * perspective >= 1, and for an
\* amplitude >= 0 the height never has the sign opposite to (noise - 0.5).
C13_DepthScaleClamped ==
    ocean.fn = "calculateWavePoint"
    => LET a == ocean.args
       IN /\ RealGeq(depthScale(a.z, a.config), Whole(0))
          /\ RealGeq(RealTimes(Whole(a.z), a.config.perspective), Whole(1))
                => ocean.result = Whole(0)
          /\ RealGeq(a.config.amplitude, Whole(0))
                => Sign(ocean.result.n)
                     * Sign(RealMinus(a.noise, NOISE_CENTER_OFFSET).n) >= 0

\* C14: with perspective > 0 and everything but the layer the same, the
\* magnitude of calculateWavePoint at a farther layer is at most that at a
\* nearer one; for the default config and noise 0.75 it is strictly smaller
\* at layer 1 than at layer 0.
C14_FartherLayersFlatten ==
    (/\ ocean.fn = "calculateWavePoint"
     /\ ocean.before.fn = "calculateWavePoint"
     /\ ocean.args.x = ocean.before.args.x
     /\ ocean.args.time = ocean.before.args.time
     /\ ocean.args.config = ocean.before.args.config
     /\ ocean.args.noise = ocean.before.args.noise
     /\ RealGreater(ocean.args.config.perspective, Whole(0))
     /\ ocean.args.z > ocean.before.args.z)
    => (/\ RealGeq(MathAbs(ocean.before.result), MathAbs(ocean.result))
        /\ (/\ ocean.args.config = DEFAULT_OCEAN_CONFIG
            /\ ocean.args.noise = Ratio(3, 4)
            /\ ocean.before.args.z = 0
            /\ ocean.args.z = 1)
           => RealGreater(MathAbs(ocean.before.result), MathAbs(ocean.result)))

C16_ParticleCountStrict ==
    ocean.fn = "particleCount"
    => (/\ ocean.args.foamIntensity = Whole(0)
              => RealGeq(ocean.result, Whole(FOAM_MIN_PARTICLES))
        /\ (/\ RealGeq(ocean.args.foamIntensity, Whole(0))
            /\ RealGeq(Whole(1), ocean.args.foamIntensity))
           => RealGeq(Whole(FOAM_MIN_PARTICLES + FOAM_MAX_PARTICLES_MULTIPLIER),
                      ocean.result)
        /\ (/\ ocean.before.fn = "particleCount"
            /\ RealGreater(ocean.args.foamIntensity, ocean.before.args.foamIntensity))
           => RealGreater(ocean.result, ocean.before.result))

\* C16, amended: the particle count of a sample point is at least 3 at
\* intensity 0, at most 8 for an intensity in [0, 1], never smaller for a
\* greater intensity, and strictly greater once the intensity is greater by
\* 1/5 or more.
C16_ParticleCountMonotone ==
    ocean.fn = "particleCount"
    => (/\ ocean.args.foamIntensity = Whole(0)
              => RealGeq(ocean.result, Whole(FOAM_MIN_PARTICLES))
        /\ (/\ RealGeq(ocean.args.foamIntensity, Whole(0))
            /\ RealGeq(Whole(1), ocean.args.foamIntensity))
           => RealGeq(Whole(FOAM_MIN_PARTICLES + FOAM_MAX_PARTICLES_MULTIPLIER),
                      ocean.result)
        /\ (/\ ocean.before.fn = "particleCount"
            /\ RealGreater(ocean.args.foamIntensity, ocean.before.args.foamIntensity))
           => RealGeq(ocean.result, ocean.before.result)
        /\ (/\ ocean.before.fn = "particleCount"
            /\ RealGeq(RealMinus(ocean.args.foamIntensity,
                                 ocean.before.args.foamIntensity),
                       Ratio(1, FOAM_MAX_PARTICLES_MULTIPLIER)))
           => RealGreater(ocean.result, ocean.before.result))

\* Intensity 0.15 gave 3 particles right after intensity 0.1 gave 3.
C16_Witness ==
    /\ ocean.fn = "particleCount"
    /\ ocean.args.foamIntensity = Ratio(3, 20)
    /\ ocean.result = Whole(3)
    /\ ocean.before.fn = "particleCount"
    /\ ocean.before.args.foamIntensity = Ratio(1, 10)
    /\ ocean.before.result = Whole(3)

\* Each channel of colour c is strictly less than that of colour d.
Darker(c, d) ==
    /\ RealGreater(d.r, c.r)
    /\ RealGreater(d.g, c.g)
    /\ RealGreater(d.b, c.b)

\* The colour of the single layer: the distant colour.
DistantColor == [r |-> Whole(DISTANT_WAVE_COLOR.r), g |-> Whole(DISTANT_WAVE_COLOR.g),
                 b |-> Whole(DISTANT_WAVE_COLOR.b)]

\* The latest two calls were getWaveLayerColor(i, N) and then
\* getWaveLayerColor(j, N) of the same N.
ColorPair(i, j) ==
    /\ ocean.fn = "getWaveLayerColor"
    /\ ocean.before.fn = "getWaveLayerColor"
    /\ ocean.before.args.totalLayers = ocean.args.totalLayers
    /\ ocean.before.args.layerIndex = i
    /\ ocean.args.layerIndex = j

\* C17, as stated: for every N > 1 and every layer 0 < i <= N-1, each channel
\* of getWaveLayerColor(i, N) is strictly less than that of
\* getWaveLayerColor(i-1, N); for N = 1 the result is the distant colour.
C17_LayersStrictlyDarker ==
    ocean.fn = "getWaveLayerColor"
    => (/\ (/\ ocean.args.totalLayers > 1
            /\ ocean.args.layerIndex > 0
            /\ ColorPair(ocean.args.layerIndex - 1, ocean.args.layerIndex))
           => Darker(ocean.result, ocean.before.result)
        /\ ocean.args.totalLayers = 1 => ocean.result = DistantColor)

\* C17, amended: that holds for N - 1 up to the smallest span of a channel
\* (50, blue), so for 1 < N <= 51; for every N > 1 the nearest layer N - 1 is
\* strictly darker than layer 0 in each channel; for N = 1 the result is the
\* distant colour.
C17_LayersDarkerUpToSpan ==
    ocean.fn = "getWaveLayerColor"
    => (/\ (/\ ocean.args.totalLayers > 1
            /\ ocean.args.totalLayers - 1 <= DISTANT_WAVE_COLOR.b - BASE_WAVE_COLOR.b
            /\ ocean.args.layerIndex > 0
            /\ ColorPair(ocean.args.layerIndex - 1, ocean.args.layerIndex))
           => Darker(ocean.result, ocean.before.result)
        /\ (/\ ocean.args.totalLayers > 1
            /\ ColorPair(0, ocean.args.totalLayers - 1))
           => Darker(ocean.result, ocean.before.result)
        /\ ocean.args.totalLayers = 1 => ocean.result = DistantColor)

\* Of 51 layers, layer 50 came out one step darker than layer 49 in blue.
C17_Witness ==
    /\ ColorPair(49, 50)
    /\ ocean.args.totalLayers = 51
    /\ ocean.before.result.b = Whole(101)
    /\ ocean.result.b = Whole(100)

\* C18: the harmonics change only through toggleHarmonic and
\* setHarmonicVolume: no write to an object held outside the engine, the
\* array passed to the constructor as an override included, changes them.
C18_HarmonicsOwned ==
    [][harmonics' # harmonics
       => last'.op \in {"toggleHarmonic", "setHarmonicVolume"}]_vars

\* C19: for callers that do not await play() or togglePlay(), whatever
\* calls interleave with a play() suspended on resume(): in every reachable
\* state nothing is bound while isPlaying is false, the bound indices are the
\* active harmonics while it is true, and every oscillator created and not
\* stopped is bound to one index.
C19_UnawaitedKeepsBindings ==
    /\ DOMAIN nodes = IF isPlaying THEN Active(Cur) ELSE {}
    /\ \A i \in DOMAIN nodes :
          /\ nodes[i].osc \in 1 .. oscCreated
          /\ \A j \in DOMAIN nodes \ {i} : nodes[j].osc # nodes[i].osc

\* play() is still suspended on resume() after a stop(), a later
\* togglePlay() has resumed and bound the oscillators, and a toggleHarmonic
\* came in between.
C19_Witness ==
    /\ ~callerAwaits
    /\ Len(tasks) = 2
    /\ tasks[1].kind = "play"
    /\ tasks[1].stage = "resume"
    /\ tasks[2].kind = "togglePlay"
    /\ tasks[2].stage = "return"
    /\ isPlaying
    /\ Cardinality(DOMAIN nodes) = 2

\* C20: in every reachable state each bound oscillator at index i has the
\* frequency fundamentalFreq * (i + 1) of the current fundamentalFreq,
\* whether it was created before or after the latest setFundamental and
\* across stop/play cycles.
C20_OscillatorFrequencies ==
    \A i \in DOMAIN nodes : nodes[i].freq = Times(fundamentalFreq, i + 1)

\* Playing at 440 Hz: the first oscillator ever created is still bound at
\* index 0, and index 1 is bound to the third, created after a stop/play
\* cycle or a toggle.
C20_Witness ==
    /\ isPlaying
    /\ fundamentalFreq = Finite(440)
    /\ DOMAIN nodes = {0, 1}
    /\ nodes[0].osc = 1
    /\ nodes[1].osc = 3
    /\ nodes[1].freq = Finite(880)

\* C21: in every reachable state the gain bound to index i has the value
\* harmonics[i].volume * 0.3, also when the volume was changed while Stopped
\* or while the harmonic was inactive; and setHarmonicVolume(i, v) changes
\* the binding of no index other than i.
C21_GainFollowsVolume ==
    /\ [](\A i \in DOMAIN nodes :
            nodes[i].gainValue = harmonics[i].volume * HARMONIC_GAIN_SCALE)
    /\ [][last'.op = "setHarmonicVolume"
          => /\ DOMAIN nodes' = DOMAIN nodes
             /\ \A j \in DOMAIN nodes \ {last'.idx} : nodes'[j] = nodes[j]]_vars

\* Harmonic 1 has just been toggled on and bound for the first time, to
\* the second oscillator ever created, with the gain of a volume of 0.3 that
\* was set while it was inactive.
C21_Witness ==
    /\ last.op = "toggleHarmonic"
    /\ last.idx = 1
    /\ isPlaying
    /\ DOMAIN nodes = {0, 1}
    /\ nodes[0].osc = 1
    /\ nodes[1].osc = 2
    /\ harmonics[1].volume = 300
    /\ nodes[1].gainValue = 300 * HARMONIC_GAIN_SCALE

\* C22: over any calls of init(), play() and togglePlay(), overlapping
\* un-awaited ones included, the audio context and its masterGain ->
\* analyser chain are created at most once, and exactly once as soon as the
\* first init(), play() or togglePlay() was called; no step, stop() included,
\* tears them down.
C22_ChainCreatedOnce ==
    /\ [](/\ ctxCreated <= 1
          /\ ctxCreated = 1 <=> audioCtx # "null"
          /\ masterGain.created <=> audioCtx # "null"
          /\ analyser.created <=> audioCtx # "null")
    /\ [][/\ (InitAudio \/ InitAudioAgain \/ Play \/ TogglePlay) => ctxCreated' = 1
          /\ audioCtx # "null"
                => (audioCtx' # "null" /\ ctxCreated' = ctxCreated
                    /\ analyser' = analyser /\ masterGain'.created)]_vars

\* Two un-awaited play() calls are suspended on resume() of the one context.
C22_Witness ==
    /\ ~callerAwaits
    /\ Len(tasks) = 2
    /\ tasks[1].kind = "play"
    /\ tasks[2].kind = "play"
    /\ tasks[1].stage = "resume"
    /\ tasks[2].stage = "resume"
    /\ audioCtx = "suspended"
    /\ ctxCreated = 1


\* C23: when the backend has already finalized the bound oscillators, so that
\* osc.stop() throws, stop() and the removal branch of syncOscillators (run by
\* toggleHarmonic) end in the same state as when none is finalized, throw
\* nothing to the caller, and leave the node unbound: stop() leaves no
\* binding, toggleHarmonic(i) of an active bound harmonic unbinds i and keeps
\* the other bindings.
C23_StopFailureSwallowed ==
    [][/\ last'.op = "stop"
          => /\ \A fin \in Finalized :
                   /\ stop(Cur, fin) = stop(Cur, {})
                   /\ ~stop(Cur, fin).threw
                   /\ nodes' = stop(Cur, fin).nodes
             /\ nodes' = NoNodes
             /\ ~last'.threw
       /\ (last'.op = "toggleHarmonic" /\ last'.idx \in DOMAIN nodes)
          => /\ \A fin \in Finalized :
                   /\ toggleHarmonic(Cur, last'.idx, fin)
                        = toggleHarmonic(Cur, last'.idx, {})
                   /\ ~toggleHarmonic(Cur, last'.idx, fin).threw
                   /\ nodes' = toggleHarmonic(Cur, last'.idx, fin).nodes
             /\ DOMAIN nodes' = DOMAIN nodes \ {last'.idx}
             /\ \A j \in DOMAIN nodes' : nodes'[j] = nodes[j]
             /\ ~last'.threw]_vars

\* toggleHarmonic(1) has just removed the binding of harmonic 1 while the
\* binding of harmonic 0 stays: the step was taken with every bound
\* oscillator finalized as well as with none.
C23_Witness ==
    /\ last.op = "toggleHarmonic"
    /\ last.idx = 1
    /\ ~last.threw
    /\ isPlaying
    /\ ~harmonics[1].active
    /\ DOMAIN nodes = {0}
    /\ oscCreated = 2

\* C24: a draw frame reads the analyser's frequency data exactly once when
\* audio is playing and an analyser and a buffer exist, and not at all
\* otherwise; the three band energies of the frame are those of that one read.
C24_OneReadPerFrame ==
    [][Draw =>
         LET analysing == /\ waves.audioIsPlaying
                          /\ waves.analyser
                          /\ waves.dataArray.alloc
             reads == waves'.frame.reads
         IN /\ Len(reads) = IF analysing THEN 1 ELSE 0
            /\ analysing
                 => /\ waves'.lowEnergy = energyInRange(reads[1], waves.sampleRate,
                                                        LOW_FREQ_MIN, LOW_FREQ_MAX)
                    /\ waves'.midEnergy = energyInRange(reads[1], waves.sampleRate,
                                                        MID_FREQ_MIN, MID_FREQ_MAX)
                    /\ waves'.highEnergy = energyInRange(reads[1], waves.sampleRate,
                                                         HIGH_FREQ_MIN, HIGH_FREQ_MAX)]_vars

\* C25: after a frame that analysed the audio, the energy of each band is the
\* mean of the bytes of the bins from floor(minHz / binSize) up to, but not
\* including, floor(maxHz / binSize), within the buffer, and 0 when there is
\* no such bin; the bins of the low, mid and high band are pairwise disjoint.
C25_BandIsHalfOpen ==
    waves.frame.reads # <<>>
    => LET reads == waves.frame.reads
           readOf(k) == reads[IF Len(reads) = 3 THEN k ELSE 1]
           upTo(maxFreq) ==
               IF binOf(maxFreq, waves.sampleRate) < frequencyBinCount
               THEN binOf(maxFreq, waves.sampleRate) ELSE frequencyBinCount
           mean(d, minFreq, maxFreq) ==
               LET from == binOf(minFreq, waves.sampleRate)
               IN IF upTo(maxFreq) > from
                  THEN Ratio(sumBytes(d, from, upTo(maxFreq)), upTo(maxFreq) - from)
                  ELSE Whole(0)
       IN /\ waves.lowEnergy = mean(readOf(1), LOW_FREQ_MIN, LOW_FREQ_MAX)
          /\ waves.midEnergy = mean(readOf(2), MID_FREQ_MIN, MID_FREQ_MAX)
          /\ waves.highEnergy = mean(readOf(3), HIGH_FREQ_MIN, HIGH_FREQ_MAX)
          /\ \A b1, b2 \in Bands :
               b1 # b2 => binsInRange(waves.sampleRate, b1[1], b1[2])
                            \cap binsInRange(waves.sampleRate, b2[1], b2[2]) = {}

\* C26: after a frame that analysed the audio, each band energy is the one
\* obtained by converting Hz to bins with the sample rate of the audio
\* context, whatever that rate is.
C26_ContextSampleRate ==
    waves.frame.reads # <<>>
    => LET reads == waves.frame.reads
           readOf(k) == reads[IF Len(reads) = 3 THEN k ELSE 1]
           rate == waves.audioContext.sampleRate
       IN /\ waves.audioContext.created
          /\ waves.lowEnergy = energyInRange(readOf(1), rate, LOW_FREQ_MIN, LOW_FREQ_MAX)
          /\ waves.midEnergy = energyInRange(readOf(2), rate, MID_FREQ_MIN, MID_FREQ_MAX)
          /\ waves.highEnergy = energyInRange(readOf(3), rate, HIGH_FREQ_MIN, HIGH_FREQ_MAX)

\* C27: a frame draws every layer L of 0 .. layers - 1 with the amplitude
\* config.amplitude + E * 0.002 when audio is playing, E being the low-band
\* energy for L in {0, 1}, the mid-band energy for L in {2, 3} and the
\* high-band energy for L >= 4, and with config.amplitude itself when audio is
\* not playing, whatever the band energies are.
C27_LayerAmplitude ==
    [][Draw =>
         LET amplitudes == waves'.frame.amplitudes
             energyOf(L) == IF L \in {0, 1} THEN waves'.lowEnergy
                            ELSE IF L \in {2, 3} THEN waves'.midEnergy
                            ELSE waves'.highEnergy
         IN /\ Len(amplitudes) = waves.waveConfig.layers
            /\ \A L \in 0 .. (waves.waveConfig.layers - 1) :
                 amplitudes[L + 1]
                   = IF waves.audioIsPlaying
                     THEN RealPlus(waves.waveConfig.amplitude,
                                   RealTimes(energyOf(L), Ratio(2, 1000)))
                     ELSE waves.waveConfig.amplitude]_vars

\* A frame drawn with audio paused while the band energies of an earlier
\* frame remain: all five layers have the amplitude of the configuration.
C27_Witness ==
    /\ ~waves.audioIsPlaying
    /\ waves.lowEnergy # Whole(0)
    /\ waves.highEnergy # Whole(0)
    /\ waves.frame.reads = <<>>
    /\ waves.frame.amplitudes = [p \in 1 .. 5 |-> Whole(50)]

\* C28: the oscillators that were started and not yet stopped and
\* disconnected are exactly the oscillators of the binding map: none sounds
\* outside the map, and no binding holds an oscillator that is not sounding.
C28_NoOrphanOscillator ==
    /\ sounding = {nodes[i].osc : i \in DOMAIN nodes}
    /\ Cardinality(sounding) = Cardinality(DOMAIN nodes)

\* Playing with harmonics 0 and 1 bound to oscillators 1 and 3: oscillator 2
\* was started for harmonic 1 and stopped again.
C28_Witness ==
    /\ isPlaying
    /\ oscCreated = 3
    /\ DOMAIN nodes = {0, 1}
    /\ nodes[0].osc = 1
    /\ nodes[1].osc = 3
    /\ sounding = {1, 3}

\* C29: when stop() was called while a play() awaits resume(), and no play()
\* or togglePlay() was requested since, the settling of that play() leaves the
\* engine Stopped with no binding.
C29_StopWinsOverPendingPlay ==
    [][\A k \in DOMAIN tasks :
         (/\ tasks[k].stage = "resume"
          /\ tasks[k].stopped
          /\ (ResumeSettles(k, TRUE) \/ ResumeSettles(k, FALSE)))
         => (~isPlaying' /\ DOMAIN nodes' = {} /\ sounding' = {})]_vars

\* C30: an engine constructed with an initial-state override never reports
\* Playing without an audio context and chain, and while it reports Playing
\* the bound indices are exactly the active harmonics.
C30_PlayingImpliesChain ==
    isPlaying => /\ audioCtx # "null"
                 /\ masterGain.created
                 /\ analyser.created
                 /\ DOMAIN nodes = {i \in Indices : harmonics[i].active}
=============================================================================
